---------------------------- MODULE Spec2Model ----------------------------
(***************************************************************************)
(* A model of src/main.cpp: the SDL/OpenGL tessellation example.           *)
(*                                                                         *)
(* The program is single threaded.  Its state is main's position (pc), the *)
(* two file-scope handles (window, context), main's locals, the part of    *)
(* the OpenGL state the program sets, and the SDL event queue, which the   *)
(* environment fills.  trace is the sequence of library calls issued so    *)
(* far; lastPass describes the latest call of HandleEvents.                *)
(*                                                                         *)
(* Arithmetic on GLfloat values is modelled exactly, over rationals        *)
(* <<numerator, denominator>>; single-precision rounding is not modelled.  *)
(***************************************************************************)
EXTENDS Integers, Sequences, FiniteSets, TLC

VARIABLES pc, exitCode, window, context, randState,
          gridRows, gridColumns, row, column, quadData,
          dummyVAO, vbo, shaderObjects, shaderProgram, colorLocation,
          events, pushed, viewport, polygonMode, patchVertices, constantColor,
          currentProgram, live, nextName, frames, lastPass, trace

vars == <<pc, exitCode, window, context, randState,
          gridRows, gridColumns, row, column, quadData,
          dummyVAO, vbo, shaderObjects, shaderProgram, colorLocation,
          events, pushed, viewport, polygonMode, patchVertices, constantColor,
          currentProgram, live, nextName, frames, lastPass, trace>>

(***************************************************************************)
(* Program constants and model bounds.                                     *)
(***************************************************************************)
kRows == 10
kColumns == 10

\* <cstdlib>'s RAND_MAX.  The model takes the smallest value the C standard
\* allows; the claims checked do not depend on its magnitude.
RAND_MAX == 32767

\* sizeof(QuadVertex): three GLfloat and four GLubyte.
SizeofQuadVertex == 16

\* Initial window size passed to SDL_CreateWindow.
InitialWidth == 800
InitialHeight == 600

\* Bounds of the model.
MaxEvents == 2      \* events the environment delivers in one run
MaxFrames == 2      \* frames presented in one run
MaxGrid == 10       \* largest grid dimension SpecGrid generates

\* Values srand() is seeded with (time(nullptr) is any value): in a run of
\* the program, and in the runs of the grid generator alone.
Seeds == {2025}
GridSeeds == {0, 1, 2025}
\* Sizes a window-resized event may carry.
Widths == {640, 1024}
Heights == {480}

(***************************************************************************)
(* Exact rational arithmetic, standing for the program's float arithmetic. *)
(***************************************************************************)
Abs(n) == IF n < 0 THEN -n ELSE n

RECURSIVE GCD(_, _)
GCD(a, b) == IF b = 0 THEN a ELSE GCD(b, a % b)

Rat(n, d) ==
    LET g == GCD(Abs(n), Abs(d))
        s == IF d < 0 THEN -1 ELSE 1
    IN  <<(s * n) \div g, (s * d) \div g>>

RatAdd(p, q) == Rat(p[1] * q[2] + q[1] * p[2], p[2] * q[2])
RatSub(p, q) == Rat(p[1] * q[2] - q[1] * p[2], p[2] * q[2])
RatMul(p, q) == Rat(p[1] * q[1], p[2] * q[2])
RatDiv(p, q) == Rat(p[1] * q[2], p[2] * q[1])

(***************************************************************************)
(* The C library's pseudo-random generator: rand() is a function of the    *)
(* generator's state, which srand() sets.  A full-period linear            *)
(* congruential generator on 0..RAND_MAX stands for it.                    *)
(***************************************************************************)
RandNext(s) == (s * 20077 + 12345) % (RAND_MAX + 1)

(***************************************************************************)
(* The grid generator (main, the nested loop).                             *)
(***************************************************************************)
\* A plausible slip: the half-cell offset is left out.
QuadXCorner(col, columns) ==
    RatSub(RatDiv(RatMul(Rat(2, 1), Rat(col, 1)), Rat(columns, 1)), Rat(1, 1))

\* quad.x = (2.0f * (0.5f + column) / (float) kColumns) - 1.0f
QuadX(col, columns) ==
    RatSub(RatDiv(RatMul(Rat(2, 1), RatAdd(Rat(1, 2), Rat(col, 1))), Rat(columns, 1)),
           Rat(1, 1))

\* quad.y = (2.0f * (0.5f + row) / (float) kRows) - 1.0f
QuadY(r, rows) ==
    RatSub(RatDiv(RatMul(Rat(2, 1), RatAdd(Rat(1, 2), Rat(r, 1))), Rat(rows, 1)),
           Rat(1, 1))

\* A plausible slip: the jitter's range is 0.05 instead of 0.04.
QuadSizeWide(randValue) ==
    RatAdd(Rat(5, 100), RatMul(RatDiv(Rat(randValue, 1), Rat(RAND_MAX, 1)), Rat(5, 100)))

\* quad.size = 0.05f + ((float) rand() / (float) RAND_MAX) * 0.04f
QuadSize(randValue) ==
    RatAdd(Rat(5, 100), RatMul(RatDiv(Rat(randValue, 1), Rat(RAND_MAX, 1)), Rat(4, 100)))

\* GLubyte(96 + rand() % 128)
QuadChannel(randValue) == (96 + (randValue % 128)) % 256

\* One iteration of the inner loop's body: the record pushed, from the
\* generator state s before its four rand() calls.
MakeQuad(r, col, rows, columns, s) ==
    LET r1 == RandNext(s)
        r2 == RandNext(r1)
        r3 == RandNext(r2)
        r4 == RandNext(r3)
    IN  [x |-> QuadX(col, columns), y |-> QuadY(r, rows),
         size |-> QuadSize(r1),
         r |-> QuadChannel(r2), g |-> QuadChannel(r3), b |-> QuadChannel(r4),
         a |-> 255]

RandAfterQuad(s) == RandNext(RandNext(RandNext(RandNext(s))))

(***************************************************************************)
(* Library calls, as recorded in trace.                                    *)
(***************************************************************************)
Call(op, args) == [op |-> op, args |-> args]

(***************************************************************************)
(* SDL events.                                                             *)
(***************************************************************************)
ResizeEvent(w, h) ==
    [type |-> "SDL_WINDOWEVENT", event |-> "SDL_WINDOWEVENT_RESIZED", data1 |-> w, data2 |-> h]
MovedEvent(x, y) ==
    [type |-> "SDL_WINDOWEVENT", event |-> "SDL_WINDOWEVENT_MOVED", data1 |-> x, data2 |-> y]
QuitEvent == [type |-> "SDL_QUIT", event |-> "", data1 |-> 0, data2 |-> 0]
KeyEvent == [type |-> "SDL_KEYDOWN", event |-> "", data1 |-> 0, data2 |-> 0]

EventValues ==
    {ResizeEvent(w, h) : w \in Widths, h \in Heights}
        \cup {MovedEvent(10, 20), QuitEvent, KeyEvent}

(***************************************************************************)
(* HandleEvents: the poll loop.  q is the event queue, vp the viewport and *)
(* calls the GL calls issued so far in this pass.  The result holds the    *)
(* return value, the queue left behind, the viewport and the calls.        *)
(***************************************************************************)
\* A plausible slip: width and height exchanged.
ResizedViewportSwapped(e) == <<0, 0, e.data2, e.data1>>

\* glViewport(0, 0, e.window.data1, e.window.data2)
ResizedViewport(e) == <<0, 0, e.data1, e.data2>>

RECURSIVE PollLoop(_, _, _)

\* A plausible slip: the quit case sets the result but goes on polling, so
\* the pass drains the queue before it returns false.
OnQuitDrain(q, vp, calls) ==
    [PollLoop(Tail(q), vp, calls) EXCEPT !.ret = FALSE]

\* A plausible slip: break instead of return false, which only leaves the
\* switch.
OnQuitBreak(q, vp, calls) == PollLoop(Tail(q), vp, calls)

\* case SDL_QUIT: return false;  (q still holds the quit event at its head)
OnQuit(q, vp, calls) ==
    [ret |-> FALSE, queue |-> Tail(q), viewport |-> vp, calls |-> calls]

PollLoop(q, vp, calls) ==
    IF q = <<>>
    THEN [ret |-> TRUE, queue |-> q, viewport |-> vp, calls |-> calls]
    ELSE LET e == Head(q) IN
         CASE e.type = "SDL_WINDOWEVENT" ->
                IF e.event = "SDL_WINDOWEVENT_RESIZED"
                THEN PollLoop(Tail(q), ResizedViewport(e),
                              Append(calls, Call("glViewport", ResizedViewport(e))))
                ELSE PollLoop(Tail(q), vp, calls)
           [] e.type = "SDL_QUIT" -> OnQuit(q, vp, calls)
           [] OTHER -> PollLoop(Tail(q), vp, calls)

(***************************************************************************)
(* CleanupSDL: the calls it issues, given the two handles.                 *)
(***************************************************************************)
\* A plausible slip: the window is destroyed without testing the handle.
CleanupCallsUnguarded(ctx, win) ==
    (IF ctx # 0 THEN <<Call("SDL_GL_DeleteContext", <<ctx>>)>> ELSE <<>>)
        \o <<Call("SDL_DestroyWindow", <<win>>), Call("SDL_QuitSubSystem", <<>>)>>

\* A plausible slip: the window is destroyed before the context.
CleanupCallsWindowFirst(ctx, win) ==
    (IF win # 0 THEN <<Call("SDL_DestroyWindow", <<win>>)>> ELSE <<>>)
        \o (IF ctx # 0 THEN <<Call("SDL_GL_DeleteContext", <<ctx>>)>> ELSE <<>>)
        \o <<Call("SDL_QuitSubSystem", <<>>)>>

CleanupCalls(ctx, win) ==
    (IF ctx # 0 THEN <<Call("SDL_GL_DeleteContext", <<ctx>>)>> ELSE <<>>)
        \o (IF win # 0 THEN <<Call("SDL_DestroyWindow", <<win>>)>> ELSE <<>>)
        \o <<Call("SDL_QuitSubSystem", <<>>)>>

\* return CleanupSDL(status), after the calls in before.
CleanupSDL(status, before) ==
    /\ trace' = trace \o before \o CleanupCalls(context, window)
    /\ context' = 0
    /\ window' = 0
    /\ exitCode' = status
    /\ pc' = "exit"

(***************************************************************************)
(* What main does about a failed bootstrap step before it cleans up.       *)
(***************************************************************************)
\* SDL_Log("Error initializing SDL: %s", SDL_GetError());
InitFailed == <<Call("SDL_InitSubSystem", <<0>>), Call("SDL_Log", <<>>)>>

WindowFailed ==
    <<Call("SDL_CreateWindow", <<0>>),
      Call("SDL_ShowSimpleMessageBox", <<"Error creating window">>)>>

\* A plausible slip: the failure is only logged.
ContextFailedLogged == <<Call("SDL_GL_CreateContext", <<0>>), Call("SDL_Log", <<>>)>>

ContextFailed ==
    <<Call("SDL_GL_CreateContext", <<0>>),
      Call("SDL_ShowSimpleMessageBox", <<"Error creating OpenGL 4.1 context">>)>>

(***************************************************************************)
(* Initial state: the process before main runs.                            *)
(***************************************************************************)
\* lastPass before HandleEvents is called.  Its fields: the queue the pass
\* found, the value it returned, the viewport before it, the queue it left
\* behind, and the position in trace of its return.
NoPass == [called |-> FALSE, queue |-> <<>>, ret |-> TRUE, viewportBefore |-> <<0, 0, 0, 0>>,
           rest |-> <<>>, at |-> 0]

InitCommon ==
    /\ exitCode = -1
    /\ window = 0
    /\ context = 0
    /\ row = 0
    /\ column = 0
    /\ quadData = <<>>
    /\ dummyVAO = 0
    /\ vbo = 0
    /\ shaderObjects = <<>>
    /\ shaderProgram = 0
    /\ colorLocation = -1
    /\ events = <<>>
    /\ pushed = 0
    /\ viewport = <<0, 0, 0, 0>>
    /\ polygonMode = "GL_FILL"
    /\ patchVertices = 3
    /\ constantColor = <<0, 0, 0>>
    /\ currentProgram = 0
    /\ live = {}
    /\ nextName = 1
    /\ frames = 0
    /\ lastPass = NoPass
    /\ trace = <<>>

Init ==
    /\ InitCommon
    /\ pc = "srand"
    /\ randState = 1
    /\ gridRows = kRows
    /\ gridColumns = kColumns

(***************************************************************************)
(* main: bootstrap.                                                        *)
(***************************************************************************)
Srand ==
    /\ pc = "srand"
    /\ \E seed \in Seeds : randState' = seed
    /\ pc' = "SDL_InitSubSystem"
    /\ UNCHANGED <<exitCode, window, context, gridRows, gridColumns, row, column, quadData,
                   dummyVAO, vbo, shaderObjects, shaderProgram, colorLocation,
                   events, pushed, viewport, polygonMode, patchVertices, constantColor,
                   currentProgram, live, nextName, frames, lastPass, trace>>

InitSubSystem ==
    /\ pc = "SDL_InitSubSystem"
    /\ \E ok \in BOOLEAN :
          IF ok
          THEN /\ trace' = trace \o <<Call("SDL_InitSubSystem", <<1>>),
                                      Call("SDL_GL_SetAttribute", <<"MAJOR_VERSION", 4>>),
                                      Call("SDL_GL_SetAttribute", <<"MINOR_VERSION", 1>>),
                                      Call("SDL_GL_SetAttribute", <<"PROFILE_MASK", "CORE">>)>>
               /\ pc' = "SDL_CreateWindow"
               /\ UNCHANGED <<exitCode, window, context>>
          ELSE CleanupSDL(1, InitFailed)
    /\ UNCHANGED <<randState, gridRows, gridColumns, row, column, quadData,
                   dummyVAO, vbo, shaderObjects, shaderProgram, colorLocation,
                   events, pushed, viewport, polygonMode, patchVertices, constantColor,
                   currentProgram, live, nextName, frames, lastPass>>

CreateWindow ==
    /\ pc = "SDL_CreateWindow"
    /\ \E ok \in BOOLEAN :
          IF ok
          THEN /\ window' = 1
               /\ trace' = Append(trace, Call("SDL_CreateWindow", <<1>>))
               /\ pc' = "SDL_GL_CreateContext"
               /\ UNCHANGED <<exitCode, context>>
          ELSE CleanupSDL(1, WindowFailed)
    /\ UNCHANGED <<randState, gridRows, gridColumns, row, column, quadData,
                   dummyVAO, vbo, shaderObjects, shaderProgram, colorLocation,
                   events, pushed, viewport, polygonMode, patchVertices, constantColor,
                   currentProgram, live, nextName, frames, lastPass>>

CreateContext ==
    /\ pc = "SDL_GL_CreateContext"
    /\ \E ok \in BOOLEAN :
          IF ok
          THEN /\ context' = 1
               /\ trace' = Append(trace, Call("SDL_GL_CreateContext", <<1>>))
               /\ viewport' = <<0, 0, InitialWidth, InitialHeight>>
               /\ pc' = "grid"
               /\ UNCHANGED <<exitCode, window>>
          ELSE /\ CleanupSDL(1, ContextFailed)
               /\ UNCHANGED viewport
    /\ UNCHANGED <<randState, gridRows, gridColumns, row, column, quadData,
                   dummyVAO, vbo, shaderObjects, shaderProgram, colorLocation,
                   events, pushed, polygonMode, patchVertices, constantColor,
                   currentProgram, live, nextName, frames, lastPass>>

(***************************************************************************)
(* main: the grid generator's loops.                                       *)
(***************************************************************************)
GridUnchanged ==
    UNCHANGED <<exitCode, window, context, gridRows, gridColumns,
                dummyVAO, vbo, shaderObjects, shaderProgram, colorLocation,
                events, pushed, viewport, polygonMode, patchVertices, constantColor,
                currentProgram, live, nextName, frames, lastPass, trace>>

\* The inner loop's body.
GridPush ==
    /\ pc = "grid"
    /\ row < gridRows
    /\ column < gridColumns
    /\ quadData' = Append(quadData, MakeQuad(row, column, gridRows, gridColumns, randState))
    /\ randState' = RandAfterQuad(randState)
    /\ column' = column + 1
    /\ UNCHANGED <<pc, row>>
    /\ GridUnchanged

\* The inner loop ends: the outer loop's row++ and the next column = 0.
GridNextRow ==
    /\ pc = "grid"
    /\ row < gridRows
    /\ column >= gridColumns
    /\ row' = row + 1
    /\ column' = 0
    /\ UNCHANGED <<pc, quadData, randState>>
    /\ GridUnchanged

\* The outer loop ends.
GridDone ==
    /\ pc = "grid"
    /\ row >= gridRows
    /\ pc' = "upload"
    /\ UNCHANGED <<row, column, quadData, randState>>
    /\ GridUnchanged

(***************************************************************************)
(* main: the vertex array, the buffer and the attribute layout.            *)
(***************************************************************************)
Upload ==
    /\ pc = "upload"
    /\ dummyVAO' = nextName
    /\ vbo' = nextName + 1
    /\ nextName' = nextName + 2
    /\ live' = live \cup {nextName, nextName + 1}
    /\ trace' = trace \o
          <<Call("glGenVertexArrays", <<nextName>>),
            Call("glBindVertexArray", <<nextName>>),
            Call("glGenBuffers", <<nextName + 1>>),
            Call("glBindBuffer", <<nextName + 1>>),
            Call("glBufferData", <<SizeofQuadVertex * Len(quadData)>>),
            Call("glVertexAttribPointer", <<0, 2, "GL_FLOAT", 0>>),
            Call("glVertexAttribPointer", <<1, 1, "GL_FLOAT", 8>>),
            Call("glVertexAttribPointer", <<2, 4, "GL_UNSIGNED_BYTE", 12>>),
            Call("glEnableVertexAttribArray", <<0>>),
            Call("glEnableVertexAttribArray", <<1>>),
            Call("glEnableVertexAttribArray", <<2>>)>>
    /\ pc' = "shaders"
    /\ UNCHANGED <<exitCode, window, context, randState, gridRows, gridColumns, row, column,
                   quadData, shaderObjects, shaderProgram, colorLocation,
                   events, pushed, viewport, polygonMode, patchVertices, constantColor,
                   currentProgram, frames, lastPass>>

(***************************************************************************)
(* CreateShader and CreateShaderProgram.                                   *)
(***************************************************************************)
ShaderTypes == <<"GL_VERTEX_SHADER", "GL_TESS_EVALUATION_SHADER", "GL_FRAGMENT_SHADER">>

\* The calls of CreateShader up to its test of the compile status.
CompileCalls(type, name, status) ==
    <<Call("glCreateShader", <<type, name>>),
      Call("glShaderSource", <<name>>),
      Call("glCompileShader", <<name>>),
      Call("glGetShaderiv", <<name, IF status THEN 1 ELSE 0>>)>>

\* A plausible slip: the failed shader's name is returned instead of 0.
CreateShaderKeepsName(type, name, status) ==
    [handle |-> name, alive |-> status,
     calls |-> CompileCalls(type, name, status)
               \o (IF status THEN <<>>
                   ELSE <<Call("SDL_ShowSimpleMessageBox", <<"Shader compilation failed">>),
                          Call("glDeleteShader", <<name>>)>>)]

\* CreateShader(type, src), with name the object glCreateShader returns and
\* status the compile status: the handle returned, the calls issued, and
\* whether the object is still alive afterwards.
CreateShader(type, name, status) ==
    IF status
    THEN [handle |-> name, alive |-> TRUE, calls |-> CompileCalls(type, name, status)]
    ELSE [handle |-> 0, alive |-> FALSE,
          calls |-> CompileCalls(type, name, status) \o
                      <<Call("SDL_ShowSimpleMessageBox", <<"Shader compilation failed">>),
                        Call("glDeleteShader", <<name>>)>>]

\* CreateShaderProgram(shaders), likewise, with status the link status.
CreateShaderProgram(shaders, name, status) ==
    LET attach == [i \in 1..Len(shaders) |-> Call("glAttachShader", <<name, shaders[i]>>)]
        head == <<Call("glCreateProgram", <<name>>)>> \o attach
                    \o <<Call("glLinkProgram", <<name>>),
                         Call("glGetProgramiv", <<name, IF status THEN 1 ELSE 0>>)>>
    IN  IF status
        THEN [handle |-> name, alive |-> TRUE, calls |-> head]
        ELSE [handle |-> 0, alive |-> FALSE,
              calls |-> head \o
                  <<Call("SDL_ShowSimpleMessageBox", <<"Shader program link failed">>),
                    Call("glDeleteProgram", <<name>>)>>]

\* One element of main's shaderObjects initialiser.
CompileStage ==
    /\ pc = "shaders"
    /\ Len(shaderObjects) < Len(ShaderTypes)
    /\ \E status \in BOOLEAN :
          LET res == CreateShader(ShaderTypes[Len(shaderObjects) + 1], nextName, status) IN
          /\ shaderObjects' = Append(shaderObjects, res.handle)
          /\ live' = IF res.alive THEN live \cup {nextName} ELSE live
          /\ trace' = trace \o res.calls
    /\ nextName' = nextName + 1
    /\ pc' = IF Len(shaderObjects) + 1 = Len(ShaderTypes) THEN "link" ELSE "shaders"
    /\ UNCHANGED <<exitCode, window, context, randState, gridRows, gridColumns, row, column,
                   quadData, dummyVAO, vbo, shaderProgram, colorLocation,
                   events, pushed, viewport, polygonMode, patchVertices, constantColor,
                   currentProgram, frames, lastPass>>

LinkProgram ==
    /\ pc = "link"
    /\ \E status \in BOOLEAN :
          LET res == CreateShaderProgram(shaderObjects, nextName, status) IN
          /\ shaderProgram' = res.handle
          /\ live' = IF res.alive THEN live \cup {nextName} ELSE live
          /\ trace' = trace \o res.calls
    /\ nextName' = nextName + 1
    /\ pc' = "uniform"
    /\ UNCHANGED <<exitCode, window, context, randState, gridRows, gridColumns, row, column,
                   quadData, dummyVAO, vbo, shaderObjects, colorLocation,
                   events, pushed, viewport, polygonMode, patchVertices, constantColor,
                   currentProgram, frames, lastPass>>

\* glGetUniformLocation: -1 for a program that is not a linked program.
UniformLocation(program) == IF program # 0 THEN 0 ELSE -1

\* The uniform location, the default tessellation levels, glUseProgram.
UseProgram ==
    /\ pc = "uniform"
    /\ colorLocation' = UniformLocation(shaderProgram)
    /\ currentProgram' = shaderProgram
    /\ trace' = trace \o
          <<Call("glGetUniformLocation", <<shaderProgram>>),
            Call("glPatchParameterfv", <<"GL_PATCH_DEFAULT_INNER_LEVEL", 1, 1>>),
            Call("glPatchParameterfv", <<"GL_PATCH_DEFAULT_OUTER_LEVEL", 1, 1, 1, 1>>),
            Call("glUseProgram", <<shaderProgram>>)>>
    /\ pc' = "HandleEvents"
    /\ UNCHANGED <<exitCode, window, context, randState, gridRows, gridColumns, row, column,
                   quadData, dummyVAO, vbo, shaderObjects, shaderProgram,
                   events, pushed, viewport, polygonMode, patchVertices, constantColor,
                   live, nextName, frames, lastPass>>

(***************************************************************************)
(* The frame loop.                                                         *)
(***************************************************************************)
LoopUnchanged ==
    UNCHANGED <<exitCode, window, context, randState, gridRows, gridColumns, row, column,
                quadData, dummyVAO, vbo, shaderObjects, shaderProgram, colorLocation,
                currentProgram, live, nextName>>

\* The environment queues an event.  An event that arrives at any other
\* moment waits in the queue until the next call of HandleEvents, so the
\* arrivals are placed right before that call.
PushEvent ==
    /\ pc = "HandleEvents"
    /\ pushed < MaxEvents
    /\ \E e \in EventValues : events' = Append(events, e)
    /\ pushed' = pushed + 1
    /\ UNCHANGED <<pc, viewport, polygonMode, patchVertices, constantColor, frames,
                   lastPass, trace>>
    /\ LoopUnchanged

\* if (!HandleEvents()) break;
HandleEvents ==
    /\ pc = "HandleEvents"
    /\ LET res == PollLoop(events, viewport, <<>>) IN
          /\ res.ret => frames < MaxFrames
          /\ events' = res.queue
          /\ viewport' = res.viewport
          /\ lastPass' = [called |-> TRUE, queue |-> events, ret |-> res.ret,
                          viewportBefore |-> viewport, rest |-> res.queue,
                          at |-> Len(trace) + Len(res.calls) + 1]
          /\ trace' = trace \o res.calls
                          \o <<Call("HandleEvents", <<IF res.ret THEN 1 ELSE 0>>)>>
          /\ pc' = IF res.ret THEN "glClear" ELSE "glDeleteShader"
    /\ UNCHANGED <<pushed, polygonMode, patchVertices, constantColor, frames>>
    /\ LoopUnchanged

\* glUniform3f(location, ...): the value of ConstantColor afterwards.
Uniform3f(location, value) ==
    IF location # -1 /\ currentProgram # 0 THEN value ELSE constantColor

\* glDrawArrays(GL_PATCHES, 0, count), with the state it draws under.
DrawArrays(count, mode, patch, program) ==
    [op |-> "glDrawArrays", args |-> <<"GL_PATCHES", 0, count>>,
     polygonMode |-> mode, patchVertices |-> patch, program |-> program]

ClearFrame ==
    /\ pc = "glClear"
    /\ patchVertices' = 1
    /\ trace' = trace \o <<Call("glClearColor", <<>>),
                           Call("glClear", <<"COLOR", "DEPTH", "STENCIL">>),
                           Call("glPatchParameteri", <<"GL_PATCH_VERTICES", 1>>)>>
    /\ pc' = "drawFilled"
    /\ UNCHANGED <<events, pushed, viewport, polygonMode, constantColor, frames, lastPass>>
    /\ LoopUnchanged

DrawFilled ==
    /\ pc = "drawFilled"
    /\ constantColor' = Uniform3f(colorLocation, <<0, 0, 0>>)
    /\ trace' = trace \o <<Call("glUniform3f", <<colorLocation, 0, 0, 0>>),
                           DrawArrays(kRows * kColumns, polygonMode, patchVertices,
                                      currentProgram)>>
    /\ pc' = "drawWireframe"
    /\ UNCHANGED <<events, pushed, viewport, polygonMode, patchVertices, frames, lastPass>>
    /\ LoopUnchanged

\* A plausible slip: fill mode is not restored after the wireframe draw.
DrawWireframeNoRestore ==
    /\ pc = "drawWireframe"
    /\ constantColor' = Uniform3f(colorLocation, <<1, 1, 1>>)
    /\ polygonMode' = "GL_LINE"
    /\ trace' = trace \o <<Call("glPolygonMode", <<"GL_FRONT_AND_BACK", "GL_LINE">>),
                           Call("glUniform3f", <<colorLocation, 1, 1, 1>>),
                           DrawArrays(kRows * kColumns, "GL_LINE", patchVertices,
                                      currentProgram)>>
    /\ pc' = "SDL_GL_SwapWindow"
    /\ UNCHANGED <<events, pushed, viewport, patchVertices, frames, lastPass>>
    /\ LoopUnchanged

DrawWireframe ==
    /\ pc = "drawWireframe"
    /\ constantColor' = Uniform3f(colorLocation, <<1, 1, 1>>)
    /\ polygonMode' = "GL_FILL"
    /\ trace' = trace \o <<Call("glPolygonMode", <<"GL_FRONT_AND_BACK", "GL_LINE">>),
                           Call("glUniform3f", <<colorLocation, 1, 1, 1>>),
                           DrawArrays(kRows * kColumns, "GL_LINE", patchVertices,
                                      currentProgram),
                           Call("glPolygonMode", <<"GL_FRONT_AND_BACK", "GL_FILL">>)>>
    /\ pc' = "SDL_GL_SwapWindow"
    /\ UNCHANGED <<events, pushed, viewport, patchVertices, frames, lastPass>>
    /\ LoopUnchanged

SwapWindow ==
    /\ pc = "SDL_GL_SwapWindow"
    /\ trace' = Append(trace, Call("SDL_GL_SwapWindow", <<window>>))
    /\ frames' = frames + 1
    /\ pc' = "HandleEvents"
    /\ UNCHANGED <<events, pushed, viewport, polygonMode, patchVertices, constantColor,
                   lastPass>>
    /\ LoopUnchanged

(***************************************************************************)
(* Teardown.                                                               *)
(***************************************************************************)
TeardownUnchanged ==
    UNCHANGED <<exitCode, window, context, randState, gridRows, gridColumns, row, column,
                quadData, dummyVAO, vbo, shaderObjects, shaderProgram, colorLocation,
                events, pushed, viewport, polygonMode, patchVertices, constantColor,
                currentProgram, nextName, frames, lastPass>>

\* for (GLuint shaderObject : shaderObjects) glDeleteShader(shaderObject);
DeleteShaders ==
    /\ pc = "glDeleteShader"
    /\ trace' = trace \o [i \in 1..Len(shaderObjects) |->
                              Call("glDeleteShader", <<shaderObjects[i]>>)]
    /\ live' = live \ {shaderObjects[i] : i \in 1..Len(shaderObjects)}
    /\ pc' = "glDeleteProgram"
    /\ TeardownUnchanged

DeleteProgram ==
    /\ pc = "glDeleteProgram"
    /\ trace' = Append(trace, Call("glDeleteProgram", <<shaderProgram>>))
    /\ live' = live \ {shaderProgram}
    /\ pc' = "glDeleteBuffers"
    /\ TeardownUnchanged

DeleteBuffers ==
    /\ pc = "glDeleteBuffers"
    /\ trace' = Append(trace, Call("glDeleteBuffers", <<vbo>>))
    /\ live' = live \ {vbo}
    /\ pc' = "glDeleteVertexArrays"
    /\ TeardownUnchanged

DeleteVertexArrays ==
    /\ pc = "glDeleteVertexArrays"
    /\ trace' = Append(trace, Call("glDeleteVertexArrays", <<dummyVAO>>))
    /\ live' = live \ {dummyVAO}
    /\ pc' = "CleanupSDL"
    /\ TeardownUnchanged

\* return CleanupSDL(0);
Cleanup ==
    /\ pc = "CleanupSDL"
    /\ CleanupSDL(0, <<>>)
    /\ UNCHANGED <<randState, gridRows, gridColumns, row, column,
                   quadData, dummyVAO, vbo, shaderObjects, shaderProgram, colorLocation,
                   events, pushed, viewport, polygonMode, patchVertices, constantColor,
                   currentProgram, live, nextName, frames, lastPass>>

(***************************************************************************)
(* The program.                                                            *)
(***************************************************************************)
Next ==
    \/ Srand
    \/ InitSubSystem
    \/ CreateWindow
    \/ CreateContext
    \/ GridPush
    \/ GridNextRow
    \/ GridDone
    \/ Upload
    \/ CompileStage
    \/ LinkProgram
    \/ UseProgram
    \/ PushEvent
    \/ HandleEvents
    \/ ClearFrame
    \/ DrawFilled
    \/ DrawWireframe
    \/ SwapWindow
    \/ DeleteShaders
    \/ DeleteProgram
    \/ DeleteBuffers
    \/ DeleteVertexArrays
    \/ Cleanup

Spec == Init /\ [][Next]_vars

(***************************************************************************)
(* The grid generator alone, for grids of every dimension up to MaxGrid.   *)
(***************************************************************************)
GridInit ==
    /\ InitCommon
    /\ pc = "grid"
    /\ randState \in GridSeeds
    /\ gridRows \in 0..MaxGrid
    /\ gridColumns \in 0..MaxGrid

GridNext == GridPush \/ GridNextRow \/ GridDone

SpecGrid == GridInit /\ [][GridNext]_vars

(***************************************************************************)
(* One record generated from every state of the random generator, so that  *)
(* rand() returns every value of 0..RAND_MAX.                              *)
(***************************************************************************)
SizeInit ==
    /\ InitCommon
    /\ pc = "grid"
    /\ randState \in 0..RAND_MAX
    /\ gridRows = 1
    /\ gridColumns = 1

SpecSize == SizeInit /\ [][GridNext]_vars

(***************************************************************************)
(* Vocabulary of the properties.                                           *)
(***************************************************************************)
Idx(tr, op) == {i \in 1..Len(tr) : tr[i].op = op}

Min(S) == CHOOSE x \in S : \A y \in S : x <= y

IsQuit(e) == e.type = "SDL_QUIT"
IsResize(e) == e.type = "SDL_WINDOWEVENT" /\ e.event = "SDL_WINDOWEVENT_RESIZED"

QuitIdx(q) == {i \in 1..Len(q) : IsQuit(q[i])}
HasQuit(q) == QuitIdx(q) # {}

\* The events of queue q in front of its first quit event, and behind it.
BeforeQuit(q) == IF HasQuit(q) THEN SubSeq(q, 1, Min(QuitIdx(q)) - 1) ELSE q
BehindQuit(q) == IF HasQuit(q) THEN SubSeq(q, Min(QuitIdx(q)) + 1, Len(q)) ELSE <<>>

\* The viewport after the resize events of q, starting from viewport before.
ViewportAfter(q, before) ==
    LET rs == SelectSeq(q, IsResize)
    IN  IF rs = <<>> THEN before
        ELSE <<0, 0, rs[Len(rs)].data1, rs[Len(rs)].data2>>

\* Position in trace of the return of the latest call of HandleEvents.
LastReturn == lastPass.at

FrameOps == {"glClearColor", "glClear", "glPatchParameteri", "glUniform3f",
             "glDrawArrays", "glPolygonMode", "SDL_GL_SwapWindow"}

AfterLoop == {"glDeleteShader", "glDeleteProgram", "glDeleteBuffers",
              "glDeleteVertexArrays", "CleanupSDL", "exit"}

(***************************************************************************)
(* C1.  A poll pass whose queue holds a quit event, wherever it stands     *)
(* among the other queued events, ends the frame loop: HandleEvents        *)
(* returns false, main is past the loop, no clear, draw or buffer swap is  *)
(* issued after that pass, and the process exits with code 0.              *)
(***************************************************************************)
C1_QuitEndsLoop ==
    (lastPass.called /\ HasQuit(lastPass.queue)) =>
        /\ lastPass.ret = FALSE
        /\ trace[LastReturn].op = "HandleEvents"
        /\ trace[LastReturn].args = <<0>>
        /\ pc \in AfterLoop
        /\ \A j \in (LastReturn + 1)..Len(trace) : trace[j].op \notin FrameOps
        /\ pc = "exit" => exitCode = 0

\* The process has exited after a frame was presented and a later pass
\* found a quit event with another event queued behind it.
C1_Witness ==
    /\ pc = "exit"
    /\ exitCode = 0
    /\ frames >= 1
    /\ Len(lastPass.queue) = 2
    /\ IsQuit(lastPass.queue[1])
    /\ ~IsQuit(lastPass.queue[2])

(***************************************************************************)
(* C2, as claimed.  When a pass sees a quit event, the events queued       *)
(* behind it are still processed in that pass: the queue is empty when the *)
(* loop ends, and a resize event behind the quit has set the viewport.     *)
(***************************************************************************)
C2_QuitAfterDrain ==
    (lastPass.called /\ ~lastPass.ret) =>
        /\ lastPass.rest = <<>>
        /\ viewport = ViewportAfter(lastPass.queue, lastPass.viewportBefore)

(***************************************************************************)
(* C2, amended.  A quit event takes effect at once: the pass returns false *)
(* when it dequeues the first quit event.  The events queued before it     *)
(* were processed; the events queued behind it are not processed, so a     *)
(* resize event behind the quit leaves the viewport alone, and they are    *)
(* still in the event queue when the loop has ended.                       *)
(***************************************************************************)
C2_QuitAtOnce ==
    (lastPass.called /\ HasQuit(lastPass.queue)) =>
        /\ ~lastPass.ret
        /\ lastPass.rest = BehindQuit(lastPass.queue)
        /\ events = BehindQuit(lastPass.queue)
        /\ viewport = ViewportAfter(BeforeQuit(lastPass.queue), lastPass.viewportBefore)

\* The loop has ended on a pass with a resize event behind the quit event.
C2_Witness ==
    /\ pc \in AfterLoop
    /\ lastPass.called
    /\ HasQuit(lastPass.queue)
    /\ SelectSeq(BehindQuit(lastPass.queue), IsResize) # <<>>
    /\ events # <<>>

(***************************************************************************)
(* C6.  A pass sets the viewport once for each window-resized event it     *)
(* processes, to origin (0,0) and the event's width and height; after the  *)
(* pass the viewport is that of the last resize event processed, and it is *)
(* the viewport of before the pass when the pass processed none.           *)
(***************************************************************************)
C6_ViewportFollowsResize ==
    lastPass.called =>
        LET done == BeforeQuit(lastPass.queue)
            rs == SelectSeq(done, IsResize)
            n == Len(rs)
            k == LastReturn
        IN  /\ viewport = ViewportAfter(done, lastPass.viewportBefore)
            /\ k > n
            /\ \A j \in 1..n :
                  /\ trace[k - n - 1 + j].op = "glViewport"
                  /\ trace[k - n - 1 + j].args = <<0, 0, rs[j].data1, rs[j].data2>>
            /\ k - n - 1 > 0 => trace[k - n - 1].op # "glViewport"

\* A pass has processed two resize events of different sizes.
C6_Witness ==
    /\ lastPass.called
    /\ lastPass.ret
    /\ LET rs == SelectSeq(lastPass.queue, IsResize)
       IN  /\ Len(rs) = 2
           /\ rs[1].data1 # rs[2].data1
           /\ viewport = <<0, 0, rs[2].data1, rs[2].data2>>

(***************************************************************************)
(* More vocabulary: the bootstrap steps and the GL calls.                  *)
(***************************************************************************)
\* Bootstrap step op was tried and failed, or succeeded.
Failed(op) == \E i \in Idx(trace, op) : trace[i].args = <<0>>
Created(op) == \E i \in Idx(trace, op) : trace[i].args = <<1>>

BootstrapOps == {"SDL_InitSubSystem", "SDL_CreateWindow", "SDL_GL_CreateContext"}

\* The positions in trace of the bootstrap steps that failed.
BootstrapFailures ==
    {i \in 1..Len(trace) : trace[i].op \in BootstrapOps /\ trace[i].args = <<0>>}

BootstrapFailed == BootstrapFailures # {}

GLOps == {"glGenVertexArrays", "glBindVertexArray", "glGenBuffers", "glBindBuffer",
          "glBufferData", "glVertexAttribPointer", "glEnableVertexAttribArray",
          "glCreateShader", "glShaderSource", "glCompileShader", "glGetShaderiv",
          "glDeleteShader", "glCreateProgram", "glAttachShader", "glLinkProgram",
          "glGetProgramiv", "glDeleteProgram", "glGetUniformLocation",
          "glPatchParameterfv", "glUseProgram", "glViewport", "glClearColor", "glClear",
          "glPatchParameteri", "glUniform3f", "glDrawArrays", "glPolygonMode",
          "glDeleteBuffers", "glDeleteVertexArrays"}

DeleteOps == {"glDeleteShader", "glDeleteProgram", "glDeleteBuffers", "glDeleteVertexArrays"}

Count(op) == Cardinality(Idx(trace, op))

(***************************************************************************)
(* C3.  A failed bootstrap step (subsystem init, window creation, context  *)
(* creation) makes main return 1: the frame loop is never entered, no GL   *)
(* call is issued and no GL object exists; the cleanup destroys the        *)
(* context only if one was created, the window only if one was created,    *)
(* and shuts the subsystem down last.                                      *)
(***************************************************************************)
C3_BootstrapFailureExits ==
    /\ BootstrapFailed <=> exitCode = 1
    /\ BootstrapFailed =>
          /\ pc = "exit"
          /\ ~lastPass.called
          /\ \A i \in 1..Len(trace) :
                trace[i].op \notin GLOps \cup {"HandleEvents", "SDL_GL_SwapWindow"}
          /\ live = {}
          /\ nextName = 1
          /\ Count("SDL_GL_DeleteContext") = (IF Created("SDL_GL_CreateContext") THEN 1 ELSE 0)
          /\ Count("SDL_DestroyWindow") = (IF Created("SDL_CreateWindow") THEN 1 ELSE 0)
          /\ Idx(trace, "SDL_QuitSubSystem") = {Len(trace)}
          /\ \A i \in Idx(trace, "SDL_DestroyWindow") : i = Len(trace) - 1
          /\ window = 0
          /\ context = 0

\* Context creation failed after the window was created, and the cleanup
\* destroyed the window.
C3_Witness ==
    /\ exitCode = 1
    /\ Failed("SDL_GL_CreateContext")
    /\ Count("SDL_DestroyWindow") = 1

(***************************************************************************)
(* C4, as claimed.  Every bootstrap failure is reported through a message  *)
(* box before the process exits with code 1.                               *)
(***************************************************************************)
C4_EveryFailureShowsBox ==
    exitCode = 1 => Idx(trace, "SDL_ShowSimpleMessageBox") # {}

(***************************************************************************)
(* C4, amended.  A failed window creation and a failed context creation    *)
(* are reported through a message box, shown right after the failed call   *)
(* and before the cleanup; a failed subsystem init is reported through     *)
(* SDL_Log only, and no message box is shown.  In each case the process    *)
(* exits with code 1.                                                      *)
(***************************************************************************)
C4_FailureReports ==
    \A i \in BootstrapFailures :
        /\ i < Len(trace)
        /\ exitCode = 1
        /\ \A j \in 1..i : trace[j].op \notin {"SDL_DestroyWindow", "SDL_QuitSubSystem"}
        /\ trace[i].op = "SDL_CreateWindow" =>
              /\ trace[i + 1].op = "SDL_ShowSimpleMessageBox"
              /\ trace[i + 1].args = <<"Error creating window">>
        /\ trace[i].op = "SDL_GL_CreateContext" =>
              /\ trace[i + 1].op = "SDL_ShowSimpleMessageBox"
              /\ trace[i + 1].args = <<"Error creating OpenGL 4.1 context">>
        /\ trace[i].op = "SDL_InitSubSystem" =>
              /\ trace[i + 1].op = "SDL_Log"
              /\ Idx(trace, "SDL_ShowSimpleMessageBox") = {}

\* The process has exited with code 1 after a failed context creation.
C4_Witness ==
    /\ pc = "exit"
    /\ exitCode = 1
    /\ Failed("SDL_GL_CreateContext")
    /\ Count("SDL_ShowSimpleMessageBox") = 1

ExpectedFrame ==
    <<Call("glClearColor", <<>>),
      Call("glClear", <<"COLOR", "DEPTH", "STENCIL">>),
      Call("glPatchParameteri", <<"GL_PATCH_VERTICES", 1>>),
      Call("glUniform3f", <<colorLocation, 0, 0, 0>>),
      [op |-> "glDrawArrays", args |-> <<"GL_PATCHES", 0, 100>>,
       polygonMode |-> "GL_FILL", patchVertices |-> 1, program |-> shaderProgram],
      Call("glPolygonMode", <<"GL_FRONT_AND_BACK", "GL_LINE">>),
      Call("glUniform3f", <<colorLocation, 1, 1, 1>>),
      [op |-> "glDrawArrays", args |-> <<"GL_PATCHES", 0, 100>>,
       polygonMode |-> "GL_LINE", patchVertices |-> 1, program |-> shaderProgram],
      Call("glPolygonMode", <<"GL_FRONT_AND_BACK", "GL_FILL">>),
      Call("SDL_GL_SwapWindow", <<1>>)>>

(***************************************************************************)
(* C5.  Every pass of HandleEvents that returns true is followed by one    *)
(* frame: the clear, then the filled draw of 100 patches of one vertex     *)
(* with the colour set to (0,0,0) under polygon mode FILL, then the        *)
(* wireframe draw of 100 patches with the colour set to (1,1,1) under      *)
(* polygon mode LINE, then polygon mode FILL again, then the buffer swap;  *)
(* and no clear, draw or swap is issued outside such a frame.              *)
(***************************************************************************)
C5_TwoDrawsPerFrame ==
    LET starts == {k \in Idx(trace, "HandleEvents") : trace[k].args = <<1>>}
        n == Len(ExpectedFrame)
        expected == ExpectedFrame
    IN  /\ \A k \in starts :
              LET m == IF Len(trace) - k < n THEN Len(trace) - k ELSE n
              IN  /\ SubSeq(trace, k + 1, k + m) = SubSeq(expected, 1, m)
                  /\ pc \in {"HandleEvents"} \cup AfterLoop => m = n
        /\ \A i \in 1..Len(trace) :
              trace[i].op \in FrameOps => \E k \in starts : k < i /\ i <= k + n
        /\ pc \in {"HandleEvents", "glClear", "drawFilled"} => polygonMode = "GL_FILL"

\* Two frames have been presented.
C5_Witness ==
    /\ pc = "HandleEvents"
    /\ frames = 2
    /\ Count("glDrawArrays") = 4

CompileFailures == {i \in Idx(trace, "glGetShaderiv") : trace[i].args[2] = 0}
LinkFailures == {i \in Idx(trace, "glGetProgramiv") : trace[i].args[2] = 0}

(***************************************************************************)
(* C9.  A failed compile or link does not end the process.  The failing    *)
(* step shows a message box, deletes the object that failed and yields     *)
(* handle 0; main goes on to resolve the uniform location and to the frame *)
(* loop, every draw uses the program handle main holds (0 after a failed   *)
(* link), and the exit code is 0: no shader failure leads to exit code 1.  *)
(***************************************************************************)
C9_ShaderFailureNotFatal ==
    LET compiles == Idx(trace, "glGetShaderiv")
        links == Idx(trace, "glGetProgramiv")
    IN  /\ \A i \in compiles :
              LET stage == Cardinality({j \in compiles : j <= i})
                  name == trace[i].args[1]
              IN  IF trace[i].args[2] = 0
                  THEN /\ trace[i + 1].op = "SDL_ShowSimpleMessageBox"
                       /\ trace[i + 1].args = <<"Shader compilation failed">>
                       /\ trace[i + 2].op = "glDeleteShader"
                       /\ trace[i + 2].args = <<name>>
                       /\ shaderObjects[stage] = 0
                  ELSE shaderObjects[stage] = name /\ name # 0
        /\ \A i \in links :
              LET name == trace[i].args[1]
              IN  IF trace[i].args[2] = 0
                  THEN /\ trace[i + 1].op = "SDL_ShowSimpleMessageBox"
                       /\ trace[i + 1].args = <<"Shader program link failed">>
                       /\ trace[i + 2].op = "glDeleteProgram"
                       /\ trace[i + 2].args = <<name>>
                       /\ shaderProgram = 0
                  ELSE shaderProgram = name /\ name # 0
        /\ exitCode = 1 => compiles = {} /\ links = {}
        /\ pc \notin {"shaders", "link"} => Cardinality(compiles) \in {0, 3}
        /\ pc \in {"uniform", "HandleEvents"} => Cardinality(links) = 1
        /\ \A i \in 1..Len(trace) :
              trace[i].op = "glDrawArrays" => trace[i].program = shaderProgram
        /\ (pc = "exit" /\ exitCode # 1) =>
              /\ exitCode = 0
              /\ Cardinality(compiles) = 3
              /\ Cardinality(links) = 1
              /\ \E i \in Idx(trace, "glGetUniformLocation") :
                    trace[i].args = <<shaderProgram>>
              /\ \E i \in Idx(trace, "glUseProgram") : trace[i].args = <<shaderProgram>>
              /\ lastPass.called
              /\ Idx(trace, "glDrawArrays") # {} \/ frames = 0

\* All three compiles and the link failed, a frame was drawn with handle 0,
\* and the process exited with code 0.
C9_Witness ==
    /\ pc = "exit"
    /\ exitCode = 0
    /\ Cardinality(CompileFailures) = 3
    /\ Cardinality(LinkFailures) = 1
    /\ frames >= 1
    /\ \A i \in Idx(trace, "glDrawArrays") : trace[i].program = 0

ExpectedTeardown ==
    <<Call("glDeleteShader", <<shaderObjects[1]>>),
      Call("glDeleteShader", <<shaderObjects[2]>>),
      Call("glDeleteShader", <<shaderObjects[3]>>),
      Call("glDeleteProgram", <<shaderProgram>>),
      Call("glDeleteBuffers", <<vbo>>),
      Call("glDeleteVertexArrays", <<dummyVAO>>),
      Call("SDL_GL_DeleteContext", <<1>>),
      Call("SDL_DestroyWindow", <<1>>),
      Call("SDL_QuitSubSystem", <<>>)>>

(***************************************************************************)
(* C10.  On a run that reaches the frame loop nothing is torn down before  *)
(* the loop has ended; the teardown then issues, in this order, the        *)
(* deletion of the three shader handles, of the program, of the vertex     *)
(* buffer and of the vertex array, the destruction of the context, that of *)
(* the window, and the shutdown of the subsystem.  Every GL object created *)
(* is deleted exactly once, no GL call follows the destruction of the      *)
(* context, and the context is destroyed before the window.                *)
(***************************************************************************)
C10_TeardownOrder ==
    lastPass.called =>
        LET last == IF lastPass.ret THEN Len(trace) ELSE lastPass.at
            n == Len(trace) - last
            deletes == {i \in 1..Len(trace) : trace[i].op \in DeleteOps}
        IN  /\ \A i \in 1..last :
                  trace[i].op \notin {"glDeleteBuffers", "glDeleteVertexArrays",
                                      "SDL_GL_DeleteContext", "SDL_DestroyWindow",
                                      "SDL_QuitSubSystem"}
            /\ \A i \in deletes : i <= last => trace[i - 1].op = "SDL_ShowSimpleMessageBox"
            /\ n <= Len(ExpectedTeardown)
            /\ SubSeq(trace, last + 1, Len(trace)) = SubSeq(ExpectedTeardown, 1, n)
            /\ pc = "exit" => n = Len(ExpectedTeardown) /\ live = {} /\ exitCode = 0
            /\ \A name \in 1..(nextName - 1) :
                  Cardinality({i \in deletes : trace[i].args = <<name>>})
                      = (IF name \in live THEN 0 ELSE 1)
            /\ pc = "exit" =>
                  \A i \in Idx(trace, "SDL_GL_DeleteContext") :
                      /\ \A j \in (i + 1)..Len(trace) : trace[j].op \notin GLOps
                      /\ \A j \in Idx(trace, "SDL_DestroyWindow") : i < j

\* A run with a failed compile has drawn a frame and finished its teardown.
C10_Witness ==
    /\ pc = "exit"
    /\ exitCode = 0
    /\ frames >= 1
    /\ Cardinality(CompileFailures) = 1
    /\ Count("SDL_QuitSubSystem") = 1

(***************************************************************************)
(* C7.  For a grid of R rows and C columns the generator produces R*C      *)
(* records in row-major order: the record at index r*C + c has             *)
(* x = 2*(0.5+c)/C - 1 and y = 2*(0.5+r)/R - 1, both strictly between -1   *)
(* and 1, whatever the seed of the random generator.                       *)
(***************************************************************************)
C7_GridLayout ==
    /\ pc = "grid" /\ row < gridRows => Len(quadData) = row * gridColumns + column
    /\ pc = "upload" => Len(quadData) = gridRows * gridColumns
    /\ \A i \in 1..Len(quadData) :
          LET r == (i - 1) \div gridColumns
              c == (i - 1) % gridColumns
              x == quadData[i].x
              y == quadData[i].y
          IN  /\ r < gridRows
              /\ x[2] > 0
              /\ y[2] > 0
              /\ x[1] * gridColumns = (2 * c + 1 - gridColumns) * x[2]
              /\ y[1] * gridRows = (2 * r + 1 - gridRows) * y[2]
              /\ -x[2] < x[1] /\ x[1] < x[2]
              /\ -y[2] < y[1] /\ y[1] < y[2]

\* The 10 x 10 grid of the program is complete.
C7_Witness ==
    /\ pc = "upload"
    /\ gridRows = 10
    /\ gridColumns = 10
    /\ Len(quadData) = 100
    /\ quadData[100].x = <<9, 10>>
    /\ quadData[11].x = <<-9, 10>>
    /\ quadData[11].y = <<-7, 10>>

(***************************************************************************)
(* C8, as claimed.  Whatever rand() returns, the size of a record is at    *)
(* least 0.05 and strictly below 0.09.                                     *)
(***************************************************************************)
C8_SizeBelowUpperBound ==
    \A i \in 1..Len(quadData) :
        /\ 5 * quadData[i].size[2] <= 100 * quadData[i].size[1]
        /\ 100 * quadData[i].size[1] < 9 * quadData[i].size[2]

(***************************************************************************)
(* C8, amended.  Whatever rand() returns, the size of a record lies in the *)
(* closed interval [0.05, 0.09]: it is at least 0.05 and at most 0.09, and *)
(* it is 0.09 when rand() returns RAND_MAX.                                *)
(***************************************************************************)
C8_SizeInClosedInterval ==
    [][(pc = "grid" /\ Len(quadData') = Len(quadData) + 1) =>
          LET size == quadData'[Len(quadData')].size
              randValue == RandNext(randState)
          IN  /\ size[2] > 0
              /\ 5 * size[2] <= 100 * size[1]
              /\ 100 * size[1] <= 9 * size[2]
              /\ randValue = RAND_MAX => 100 * size[1] = 9 * size[2]]_vars

\* A record has been generated whose size is 0.09.
C8_Witness ==
    /\ pc = "upload"
    /\ Len(quadData) = 1
    /\ quadData[1].size = <<9, 100>>

====
